---- MODULE Spec2Model ----
(***************************************************************************)
(* Model of the dekejikatu Discord automation scripts.                     *)
(*                                                                         *)
(*  - the windowed message fetcher: fetchSince (discord-achievements.js)   *)
(*    and fetchMessagesSince (discord-selfintro.js), which are the same    *)
(*    loop with different default caps;                                    *)
(*  - the seen-URL ledger and the ai-news run that uses it                 *)
(*    (discord-ai-news.js, and the same code in discord-consultation.js);  *)
(*  - the main functions of the five scripts: the achievements digest, the *)
(*    self-intro digest, the consultation prompt, the ai-news digest over  *)
(*    NewsAPI (discord-ai-news.js) and the ai-news digest over Brave,      *)
(*    NewsAPI and Google News RSS (discord-consultation.js, from line 45). *)
(*                                                                         *)
(* JavaScript is single threaded: a handler runs from one await to the     *)
(* next without interleaving, so every action below is one such stretch.   *)
(***************************************************************************)
EXTENDS Integers, Sequences, FiniteSets, TLC

VARIABLES
    \* ---- fetchSince / fetchMessagesSince ----
    fpc,        \* position of the call: "start", "await", "returned", "threw"
    sinceTs,    \* new Date(sinceIso).getTime()
    limitMax,   \* the cap argument
    out,        \* the accumulator (out / messages)
    before,     \* the cursor; NoCursor stands for undefined
    requests,   \* the 'before' parameter of every request issued so far, in order
    resp,       \* the response the last await resumed with
    result,     \* the list handed to the caller (<<>> until the call returns)
    thrown,     \* the status carried by the Error thrown (0 until a throw)
    why,        \* which exit of the loop returned: "boundary", "exhausted", "cap"
    channel,    \* the channel history of a well-behaved upstream, newest first
    \* ---- ai-news run and the sent-URL ledger ----
    env,        \* which environment variables are set
    file,       \* DEJIRYU_DISCORD/data/ai-news-sent.json
    npc,        \* position of main: "start", "newsapi", "openai", "post",
                \*   "postFiller", "done" (and "filter", "filtered" for the filters alone)
    query,      \* index of the NewsAPI query in flight
    sentUrls,   \* the Set loaded by the fetch function, in insertion order
    articles,   \* a source response's article list (the filters on their own)
    items,      \* what the filters leave of it (the filters on their own)
    raw,        \* the items main got from the fetch function
    marked,     \* the Set main handed to saveSentUrls, in insertion order
    digest,     \* the message built for the POST
    exitCode,   \* process.exitCode
    events,     \* requests issued, ledger writes and errors of this run, in order
    inserted,   \* how many distinct URLs the one-item-per-run feed has served
    \* ---- the main functions ----
    script,     \* whose main runs: "achievements", "selfintro", "consultation",
                \*   "ainews" (NewsAPI only), "ainews3" (three sources); "none"
    nonBot,     \* raw.filter(m => !m.author?.bot)
    allItems,   \* the accumulator of fetchNewsFromBraveAPI / fetchNewsFromGoogleNewsRSS
    answer,     \* what the last await of a news, summarizer or POST request resumed with
    \* ---- two processes of the news script on one ledger file ----
    runs        \* per process: where it is between fetch and save, its raw, its
                \*   sentUrls (the Set of main) and whether its write succeeded

varsFetch == <<fpc, sinceTs, limitMax, out, before, requests, resp, result, thrown, why, channel>>

varsNews == <<env, file, npc, query, sentUrls, articles, items, raw, marked, digest,
              exitCode, events, inserted>>

varsRun == <<script, nonBot, allItems, answer>>

vars == <<fpc, sinceTs, limitMax, out, before, requests, resp, result, thrown, why, channel,
          env, file, npc, query, sentUrls, articles, items, raw, marked, digest,
          exitCode, events, inserted, script, nonBot, allItems, answer, runs>>

-----------------------------------------------------------------------------
(* Bounds of the model. *)

MaxTs == 1          \* timestamps are 0..MaxTs
MaxId == 2          \* message ids an arbitrary upstream may use are 1..MaxId
MaxPageLen == 2     \* the longest page an upstream returns (100 in production)
MaxLimit == 2       \* limitMax ranges over 1..MaxLimit
MaxChannel == 4     \* the longest channel history of the well-behaved upstream

NoCursor == 0

\* nonBot.slice(0,40)
SummaryCap == 40

\* The upstream of the model answers at most this many requests of one call.
\* Every accepted page adds an item, so a call issues at most limitMax
\* requests (limitMax is at most MaxLimit or MaxChannel + 1 for the call on
\* its own), and the scripts' calls, whose caps are 1200 and 800, issue at
\* most one more request than their channel has messages. The cap is never
\* met by the code as written; it only keeps the request log finite for a
\* loop that would not end.
RequestCap == SummaryCap + MaxLimit + MaxChannel + 1

SeqsUpTo(S, n) == UNION {[1..k -> S] : k \in 0..n}

Min(a, b) == IF a < b THEN a ELSE b

Prefix(s, n) == SubSeq(s, 1, Min(n, Len(s)))

-----------------------------------------------------------------------------
(* Messages and responses of the message-list endpoint. *)

Timestamps == 0..MaxTs

Message(i, t) == [id |-> i, timestamp |-> t]

\* Messages an arbitrary upstream may put in a page.
AnyMessages == {Message(i, t) : i \in 1..MaxId, t \in Timestamps}

Failed(status) == [ok |-> FALSE, status |-> status, isArray |-> FALSE, items |-> <<>>]

NotArray == [ok |-> TRUE, status |-> 200, isArray |-> FALSE, items |-> <<>>]

Page(batch) == [ok |-> TRUE, status |-> 200, isArray |-> TRUE, items |-> batch]

NoResponse == [ok |-> TRUE, status |-> 0, isArray |-> FALSE, items |-> <<>>]

FailureStatuses == {429, 500}

OkResponses == {NotArray} \cup {Page(p) : p \in SeqsUpTo(AnyMessages, MaxPageLen)}

AnyResponses == OkResponses \cup {Failed(s) : s \in FailureStatuses}

\* Channel histories of a well-behaved upstream: newest first, ids strictly
\* decreasing (snowflakes), timestamps never increasing.
RECURSIVE NonIncreasing(_, _)
NonIncreasing(n, top) ==
    IF n = 0 THEN {<<>>}
    ELSE UNION {{<<t>> \o s : s \in NonIncreasing(n - 1, t)} : t \in 0..top}

Histories ==
    {[i \in 1..Len(ts) |-> Message(Len(ts) - i + 1, ts[i])] :
        ts \in UNION {NonIncreasing(n, MaxTs) : n \in 0..MaxChannel}}

\* GET /channels/{id}/messages?limit=..&before=b of a well-behaved upstream:
\* the newest messages strictly older than the cursor, one page of them.
HistoryPage(c, b) ==
    LET older == SelectSeq(c, LAMBDA m : b = NoCursor \/ m.id < b)
    IN  Page(Prefix(older, MaxPageLen))

-----------------------------------------------------------------------------
(* The sent-URL ledger (discord-ai-news.js; the same code is in
   discord-consultation.js). URLs are numbers; 0 stands for a missing or
   empty url, "" for a missing or empty title. *)

\* urlArray.slice(-100)
LedgerCap == 100

\* items.slice(0, 3)
MaxSelected == 3

\* const queries = [ja, en]
NewsApiQueries == 2

HistoryLen == 99    \* URLs recorded by earlier runs in the ledger the model starts from
MaxFresh == 2       \* URLs the news source may serve that were never recorded
MaxArticles == 2    \* the longest article list of one source response
MaxInsert == 150    \* runs of the one-item-per-run feed

MaxAuthor == 2      \* human authors of channel messages are 1..MaxAuthor

\* fetchSince(CHANNEL_ID, since.toISOString(), 1200)
AchievementsCap == 1200

\* fetchMessagesSince(CHANNEL_ID, since.toISOString(), 800)
SelfIntroCap == 800

\* const queries = [...] of fetchNewsFromBraveAPI and of fetchNewsFromGoogleNewsRSS
BraveQueries == 5

RssQueries == 3

\* while (... && allItems.length < 30)
RssCap == 30

Range(s) == {s[i] : i \in 1..Len(s)}

\* The processes of the news script that may run at once.
Runs == {"first", "second"}

NoRun == [pc |-> "none", raw |-> <<>>, sentUrls |-> <<>>, wrote |-> FALSE]

\* One process only is part of the behaviour.
NoOtherRun == runs = [p \in Runs |-> NoRun]

NoDuplicates(s) == \A i, j \in 1..Len(s) : s[i] = s[j] => i = j

Article(title, url) == [title |-> title, url |-> url]

\* JavaScript truthiness of a title (string) and of a url (number here).
TruthyTitle(t) == t # ""

TruthyUrl(u) == u # 0

\* Set.prototype.add: a value already present keeps its place.
SetAdd_NoDedupe(set, u) == Append(set, u)

SetAdd(set, u) == IF u \in Range(set) THEN set ELSE Append(set, u)

\* new Set(array): the array's values in first-occurrence order.
SetFrom(array) ==
    IF Cardinality(Range(array)) = Len(array) THEN array
    ELSE LET first == {i \in 1..Len(array) : \A j \in 1..(i - 1) : array[j] # array[i]}
         IN  [k \in 1..Cardinality(first) |->
                array[CHOOSE i \in first : Cardinality({j \in first : j < i}) = k - 1]]

\* array.slice(-n)
LastN_First(array, n) == SubSeq(array, 1, Min(n, Len(array)))

LastN(array, n) ==
    IF Len(array) <= n THEN array ELSE SubSeq(array, Len(array) - n + 1, Len(array))

\* States of the ledger file: it does not exist; it exists and reading it
\* throws; its text is not JSON; its JSON has no 'urls' (or a falsy one); its
\* 'urls' is a value that cannot be iterated (a number, an object); its 'urls'
\* is a non-empty string; it is {urls: [...]}.
FileKinds == {"absent", "unreadable", "corrupt", "noUrls", "badUrls", "stringUrls", "ledger"}

NoLedger(kind) == [kind |-> kind, urls |-> <<>>]

LedgerFile(urls) == [kind |-> "ledger", urls |-> urls]

\* {"urls": "ab"}: iterating the string gives its characters, which stand here
\* as the negative numbers.
StringUrlsFile == [kind |-> "stringUrls", urls |-> <<-1, -2>>]

\* loadSentUrls: existsSync, readFileSync, JSON.parse, new Set(data.urls || []);
\* whatever throws inside is caught and logged, and the empty Set returned.
\* new Set(x) iterates x, an array or a string alike.
LoadSentUrls(f) ==
    IF f.kind \in {"ledger", "stringUrls"}
    THEN [raised |-> FALSE, urls |-> SetFrom(f.urls)]
    ELSE [raised |-> FALSE, urls |-> <<>>]

\* saveSentUrls: the file after the call; a failed write is caught and leaves
\* the file as it was.
SaveSentUrls_NoLimit(urls, f, writeOk) ==
    IF writeOk THEN LedgerFile(urls) ELSE f

SaveSentUrls(urls, f, writeOk) ==
    IF writeOk THEN LedgerFile(LastN(urls, LedgerCap)) ELSE f

\* .filter(a => a.title && a.url)
ValidItems(list) == SelectSeq(list, LAMBDA a : TruthyTitle(a.title) /\ TruthyUrl(a.url))

\* .filter(a => !sentUrls.has(a.url))
RECURSIVE FilterUnseen_KeepsSeen(_, _)
FilterUnseen_KeepsSeen(list, seen) ==
    IF list = <<>> THEN <<>>
    ELSE IF Head(list).url \in Range(seen)
         THEN <<Head(list)>> \o FilterUnseen_KeepsSeen(Tail(list), seen)
         ELSE FilterUnseen_KeepsSeen(Tail(list), seen)

RECURSIVE FilterUnseen(_, _)
FilterUnseen(list, seen) ==
    IF list = <<>> THEN <<>>
    ELSE IF Head(list).url \in Range(seen)
         THEN FilterUnseen(Tail(list), seen)
         ELSE <<Head(list)>> \o FilterUnseen(Tail(list), seen)

\* Brave: .filter(item => item.title && item.url && !sentUrls.has(item.url))
RECURSIVE BraveFilter(_, _)
BraveFilter(list, seen) ==
    IF list = <<>> THEN <<>>
    ELSE IF /\ TruthyTitle(Head(list).title)
            /\ TruthyUrl(Head(list).url)
            /\ Head(list).url \notin Range(seen)
         THEN <<Head(list)>> \o BraveFilter(Tail(list), seen)
         ELSE BraveFilter(Tail(list), seen)

\* raw.forEach(item => { if (item.url) sentUrls.add(item.url) })
RECURSIVE AddUrls(_, _)
AddUrls(set, list) ==
    IF list = <<>> THEN set
    ELSE AddUrls(IF TruthyUrl(Head(list).url) THEN SetAdd(set, Head(list).url) ELSE set,
                 Tail(list))

\* The ledger after n one-URL runs that never met the cap: URLs 1..n.
Ledger(n) == [i \in 1..n |-> i]

\* URLs the news source of the model serves: the oldest and the newest of the
\* starting ledger, and the fresh ones.
UrlPool == {1, HistoryLen} \cup (HistoryLen + 1)..(HistoryLen + MaxFresh)

ArticlePool ==
    {Article("t", u) : u \in UrlPool} \cup {Article("", HistoryLen + 1), Article("t", 0)}

ArticleLists == SeqsUpTo(ArticlePool, MaxArticles)

\* What the await of a NewsAPI request resumes with: a non-success status, a
\* thrown error, a body with status 'error', or a body with articles.
NewsResponse(kind, list) == [kind |-> kind, articles |-> list]

NewsResponses ==
    {NewsResponse(k, <<>>) : k \in {"http", "throw", "apiError"}}
        \cup {NewsResponse("ok", l) : l \in ArticleLists}

InitialFiles ==
    {NoLedger(k) : k \in FileKinds \ {"ledger", "stringUrls"}}
        \cup {StringUrlsFile, LedgerFile(Ledger(HistoryLen))}

Environments == [token : BOOLEAN, channel : BOOLEAN, newsKey : BOOLEAN, openaiKey : BOOLEAN]

NoDigest == [kind |-> "none", items |-> <<>>]

\* fallbackFormat([]), fallbackFormat(raw), and the summarizer's text.
Filler == [kind |-> "filler", items |-> <<>>]

Template(list) == [kind |-> "template", items |-> Prefix(list, MaxSelected)]

Summary(list) == [kind |-> "ai", items |-> Prefix(list, MaxSelected)]

\* The run-local state of main before it starts.
RunLocalsReset ==
    /\ query = 0
    /\ sentUrls = <<>>
    /\ articles = <<>>
    /\ items = <<>>
    /\ raw = <<>>
    /\ marked = <<>>
    /\ digest = NoDigest
    /\ exitCode = 0
    /\ events = <<>>
    /\ nonBot = <<>>
    /\ allItems = <<>>
    /\ answer = "none"

\* No news run is part of the behaviour.
NoNewsRun ==
    /\ env = [token |-> TRUE, channel |-> TRUE, newsKey |-> TRUE, openaiKey |-> TRUE]
    /\ file = NoLedger("absent")
    /\ npc = "idle"
    /\ inserted = 0
    /\ RunLocalsReset
    /\ script = "none"

-----------------------------------------------------------------------------
(* fetchSince / fetchMessagesSince *)

\* while (out.length < limitMax)
LoopCond(o, cap) == Len(o) < cap

\* if (ts < sinceTs)
IsPastWindow(m, since) == m.timestamp < since

\* for (const m of batch) { if (ts < sinceTs) return out; out.push(m); }
RECURSIVE ScanBatch_PushThenTest(_, _, _)
ScanBatch_PushThenTest(batch, o, since) ==
    IF batch = <<>> THEN [returned |-> FALSE, out |-> o]
    ELSE IF IsPastWindow(Head(batch), since)
         THEN [returned |-> TRUE, out |-> Append(o, Head(batch))]
         ELSE ScanBatch_PushThenTest(Tail(batch), Append(o, Head(batch)), since)

RECURSIVE ScanBatch_SkipPast(_, _, _)
ScanBatch_SkipPast(batch, o, since) ==
    IF batch = <<>> THEN [returned |-> FALSE, out |-> o]
    ELSE IF IsPastWindow(Head(batch), since)
         THEN ScanBatch_SkipPast(Tail(batch), o, since)
         ELSE ScanBatch_SkipPast(Tail(batch), Append(o, Head(batch)), since)

RECURSIVE ScanBatch(_, _, _)
ScanBatch(batch, o, since) ==
    IF batch = <<>> THEN [returned |-> FALSE, out |-> o]
    ELSE IF IsPastWindow(Head(batch), since)
         THEN [returned |-> TRUE, out |-> o]
         ELSE ScanBatch(Tail(batch), Append(o, Head(batch)), since)

\* before = batch[batch.length-1].id
NextCursor_First(batch) == batch[1].id

NextCursor(batch) == batch[Len(batch)].id

\* One pass of the loop body from the resumed await to the end of the body:
\* what the call does with the response r.
FetchStep_ReturnsPartial(r, o, b, since) ==
    IF ~r.ok THEN [kind |-> "exhausted", status |-> 0, out |-> o, before |-> b]
    ELSE IF ~r.isArray \/ Len(r.items) = 0
    THEN [kind |-> "exhausted", status |-> 0, out |-> o, before |-> b]
    ELSE LET s == ScanBatch(r.items, o, since)
         IN  IF s.returned
             THEN [kind |-> "boundary", status |-> 0, out |-> s.out, before |-> b]
             ELSE [kind |-> "continue", status |-> 0, out |-> s.out,
                   before |-> NextCursor(r.items)]

FetchStep_ContinueOnEmpty(r, o, b, since) ==
    IF ~r.ok THEN [kind |-> "throw", status |-> r.status, out |-> o, before |-> b]
    ELSE IF ~r.isArray \/ Len(r.items) = 0
    THEN [kind |-> "continue", status |-> 0, out |-> o, before |-> b]
    ELSE LET s == ScanBatch(r.items, o, since)
         IN  IF s.returned
             THEN [kind |-> "boundary", status |-> 0, out |-> s.out, before |-> b]
             ELSE [kind |-> "continue", status |-> 0, out |-> s.out,
                   before |-> NextCursor(r.items)]

FetchStep_KeepsCursor(r, o, b, since) ==
    IF ~r.ok THEN [kind |-> "throw", status |-> r.status, out |-> o, before |-> b]
    ELSE IF ~r.isArray \/ Len(r.items) = 0
    THEN [kind |-> "exhausted", status |-> 0, out |-> o, before |-> b]
    ELSE LET s == ScanBatch(r.items, o, since)
         IN  IF s.returned
             THEN [kind |-> "boundary", status |-> 0, out |-> s.out, before |-> b]
             ELSE [kind |-> "continue", status |-> 0, out |-> s.out, before |-> b]

FetchStep(r, o, b, since) ==
    IF ~r.ok THEN [kind |-> "throw", status |-> r.status, out |-> o, before |-> b]
    ELSE IF ~r.isArray \/ Len(r.items) = 0
    THEN [kind |-> "exhausted", status |-> 0, out |-> o, before |-> b]
    ELSE LET s == ScanBatch(r.items, o, since)
         IN  IF s.returned
             THEN [kind |-> "boundary", status |-> 0, out |-> s.out, before |-> b]
             ELSE [kind |-> "continue", status |-> 0, out |-> s.out,
                   before |-> NextCursor(r.items)]

\* The head of the loop with accumulator o and cursor b: issue the next
\* request, or fall out of the loop and return o.
LoopHead(o, b) ==
    IF LoopCond(o, limitMax)
    THEN /\ fpc' = "await"
         /\ requests' = Append(requests, b)
         /\ UNCHANGED <<result, why>>
    ELSE /\ fpc' = "returned"
         /\ result' = o
         /\ why' = "cap"
         /\ UNCHANGED requests

\* The call itself, up to its first await.
FetchCall ==
    /\ fpc = "start"
    /\ LoopHead(out, before)
    /\ UNCHANGED <<sinceTs, limitMax, out, before, resp, thrown, channel, runs>>
    /\ UNCHANGED varsNews
    /\ UNCHANGED varsRun

\* The await resumes with response r; the call runs to its next await, its
\* return or its throw.
FetchAdvance(r) ==
    /\ fpc = "await"
    /\ Len(requests) <= RequestCap
    /\ resp' = r
    /\ LET s == FetchStep(r, out, before, sinceTs)
       IN  /\ out' = s.out
           /\ before' = s.before
           /\ CASE s.kind = "throw" ->
                     /\ fpc' = "threw"
                     /\ thrown' = s.status
                     /\ UNCHANGED <<requests, result, why>>
                [] s.kind = "continue" ->
                     /\ LoopHead(s.out, s.before)
                     /\ UNCHANGED thrown
                [] OTHER ->
                     /\ fpc' = "returned"
                     /\ result' = s.out
                     /\ why' = s.kind
                     /\ UNCHANGED <<requests, thrown>>
    /\ UNCHANGED <<sinceTs, limitMax, channel, runs>>

\* The call on its own, outside a script's main.
FetchResume(r) ==
    /\ FetchAdvance(r)
    /\ UNCHANGED varsNews
    /\ UNCHANGED varsRun

\* An upstream about which nothing is assumed.
UpstreamAnswers == \E r \in AnyResponses : FetchResume(r)

\* An upstream that always answers with a success response.
UpstreamSucceeds == \E r \in OkResponses : FetchResume(r)

\* The well-behaved upstream serving the channel history.
HistoryAnswers == FetchResume(HistoryPage(channel, requests[Len(requests)]))

InitCall ==
    /\ NoOtherRun
    /\ fpc = "start"
    /\ sinceTs \in 0..(MaxTs + 1)
    /\ out = <<>>
    /\ before = NoCursor
    /\ requests = <<>>
    /\ resp = NoResponse
    /\ result = <<>>
    /\ thrown = 0
    /\ why = "none"

InitFetch == InitCall /\ limitMax \in 1..MaxLimit /\ channel = <<>> /\ NoNewsRun

\* The cap ranges past the length of the history, so that it may exceed the
\* number of in-window messages.
InitHistory ==
    InitCall /\ channel \in Histories /\ limitMax \in 1..(MaxChannel + 1) /\ NoNewsRun

NextFetch == FetchCall \/ UpstreamAnswers

NextLive == FetchCall \/ UpstreamSucceeds

NextHistory == FetchCall \/ HistoryAnswers

\* fetchSince against an arbitrary upstream.
SpecFetch == InitFetch /\ [][NextFetch]_vars

\* fetchSince against an upstream whose every answer is a success; an await
\* on an answered request resumes.
LiveFetch == InitFetch /\ [][NextLive]_vars /\ WF_vars(NextLive)

\* fetchSince against the well-behaved upstream.
SpecHistory == InitHistory /\ [][NextHistory]_vars

-----------------------------------------------------------------------------
(* main of discord-ai-news.js, with fetchNewsFromNewsAPI, summarizeWithOpenAI
   and postToDiscord inlined at their awaits. *)

\* catch (e) { log(...); process.exitCode = 1 }
MainCatch_ExitZero ==
    /\ npc' = "done"
    /\ exitCode' = 0
    /\ events' = Append(events, "error")

MainCatch ==
    /\ npc' = "done"
    /\ exitCode' = 1
    /\ events' = Append(events, "error")

\* fetchNewsFromNewsAPI returned []: main awaits the POST of the filler.
PostFillerNext_Saves(log) ==
    /\ raw' = <<>>
    /\ digest' = Filler
    /\ npc' = "postFiller"
    /\ events' = log \o <<"saved", "post">>

PostFillerNext(log) ==
    /\ raw' = <<>>
    /\ digest' = Filler
    /\ npc' = "postFiller"
    /\ events' = Append(log, "post")

\* main from its start to its first await.
MainStart ==
    /\ script = "ainews"
    /\ npc = "start"
    /\ IF ~(env.token /\ env.channel)
       THEN /\ MainCatch
            /\ UNCHANGED <<query, sentUrls, raw, digest>>
       ELSE IF ~env.newsKey
       THEN /\ PostFillerNext(events)
            /\ UNCHANGED <<query, sentUrls, exitCode>>
       ELSE LET l == LoadSentUrls(file)
            IN  IF l.raised
                THEN /\ MainCatch
                     /\ UNCHANGED <<query, sentUrls, raw, digest>>
                ELSE /\ sentUrls' = l.urls
                     /\ query' = 1
                     /\ npc' = "newsapi"
                     /\ events' = Append(events, "newsapi")
                     /\ UNCHANGED <<raw, digest, exitCode>>
    /\ UNCHANGED <<env, file, articles, items, marked, inserted>>
    /\ UNCHANGED varsFetch
    /\ UNCHANGED runs
    /\ UNCHANGED varsRun

\* main after fetchNewsFromNewsAPI returned the non-empty list sel: record the
\* URLs (the write succeeds or fails), then await the summarizer or the POST.
RecordAndGoOn_WriteRaises(sel, writeOk) ==
    LET set == AddUrls(LoadSentUrls(file).urls, sel)
    IN  /\ raw' = sel
        /\ IF ~writeOk
           THEN /\ npc' = "done"
                /\ exitCode' = 1
                /\ events' = events \o <<"saveFailed", "error">>
                /\ UNCHANGED <<file, marked, digest>>
           ELSE /\ marked' = set
                /\ file' = SaveSentUrls(set, file, writeOk)
                /\ UNCHANGED exitCode
                /\ IF env.openaiKey
                   THEN /\ npc' = "openai"
                        /\ events' = Append(Append(events, "saved"), "openai")
                        /\ UNCHANGED digest
                   ELSE /\ npc' = "post"
                        /\ digest' = Template(sel)
                        /\ events' = Append(Append(events, "saved"), "post")

RecordAndGoOn(sel, writeOk) ==
    LET l == LoadSentUrls(file)
    IN  /\ raw' = sel
        /\ IF l.raised
           THEN /\ MainCatch
                /\ UNCHANGED <<file, marked, digest>>
           ELSE LET set == AddUrls(l.urls, sel)
                    log == Append(events, IF writeOk THEN "saved" ELSE "saveFailed")
                IN  /\ marked' = set
                    /\ file' = SaveSentUrls(set, file, writeOk)
                    /\ UNCHANGED exitCode
                    /\ IF env.openaiKey
                       THEN /\ npc' = "openai"
                            /\ events' = Append(log, "openai")
                            /\ UNCHANGED digest
                       ELSE /\ npc' = "post"
                            /\ digest' = Template(sel)
                            /\ events' = Append(log, "post")

\* The await of a NewsAPI request resumes with r; main runs to its next await.
NewsApiResume(r, writeOk) ==
    /\ script = "ainews"
    /\ npc = "newsapi"
    /\ LET found == IF r.kind = "ok"
                    THEN FilterUnseen(ValidItems(r.articles), sentUrls)
                    ELSE <<>>
       IN  /\ IF Len(found) > 0
              THEN /\ RecordAndGoOn(Prefix(found, MaxSelected), writeOk)
                   /\ UNCHANGED query
              ELSE IF query < NewsApiQueries
              THEN /\ query' = query + 1
                   /\ events' = Append(events, "newsapi")
                   /\ UNCHANGED <<npc, raw, marked, digest, exitCode, file>>
              ELSE /\ PostFillerNext(events)
                   /\ UNCHANGED <<query, marked, exitCode, file>>
    /\ UNCHANGED <<env, sentUrls>>
    /\ UNCHANGED varsFetch
    /\ UNCHANGED runs
    /\ UNCHANGED varsRun

NewsApiAnswers ==
    /\ \E r \in NewsResponses, writeOk \in BOOLEAN : NewsApiResume(r, writeOk)
    /\ UNCHANGED <<articles, items, inserted>>

\* The same, keeping the response's article list and what the filters left
\* of it (data.articles, items) in view.
NewsApiObserved ==
    /\ \E r \in NewsResponses, writeOk \in BOOLEAN :
          /\ NewsApiResume(r, writeOk)
          /\ articles' = r.articles
          /\ items' = IF r.kind = "ok"
                       THEN FilterUnseen(ValidItems(r.articles), sentUrls)
                       ELSE <<>>
    /\ UNCHANGED inserted

\* The await of the summarizer resumes: with text, or with anything that
\* makes summarizeWithOpenAI return null.
OpenAiAnswers ==
    /\ script \in {"ainews", "ainews3"}
    /\ npc = "openai"
    /\ \E r \in {"text", "empty", "http", "throw"} :
          /\ answer' = r
          /\ digest' = IF r = "text" THEN Summary(raw) ELSE Template(raw)
    /\ npc' = "post"
    /\ events' = Append(events, "post")
    /\ UNCHANGED <<env, file, query, sentUrls, articles, items, raw, marked, exitCode, inserted>>
    /\ UNCHANGED <<script, nonBot, allItems>>
    /\ UNCHANGED varsFetch
    /\ UNCHANGED runs

\* The await of the POST resumes.
PostResume(ok) ==
    /\ script \in {"ainews", "ainews3"}
    /\ npc \in {"post", "postFiller"}
    /\ IF ok
       THEN /\ npc' = "done"
            /\ events' = Append(events, "posted")
            /\ UNCHANGED exitCode
       ELSE MainCatch
    /\ UNCHANGED <<env, file, query, sentUrls, articles, items, raw, marked, digest, inserted>>
    /\ UNCHANGED varsFetch
    /\ UNCHANGED runs
    /\ UNCHANGED varsRun

PostAnswers == \E ok \in BOOLEAN : PostResume(ok)

\* The scheduler starts the next run: a new process, the same file.
NewRun ==
    /\ npc = "done"
    /\ npc' = "start"
    /\ query' = 0
    /\ sentUrls' = <<>>
    /\ articles' = <<>>
    /\ items' = <<>>
    /\ raw' = <<>>
    /\ marked' = <<>>
    /\ digest' = NoDigest
    /\ exitCode' = 0
    /\ events' = <<>>
    /\ answer' = "none"
    /\ UNCHANGED <<env, file, inserted>>
    /\ UNCHANGED <<script, nonBot, allItems>>
    /\ UNCHANGED varsFetch
    /\ UNCHANGED runs

IdleCall ==
    /\ fpc = "idle"
    /\ sinceTs = 0
    /\ limitMax = 1
    /\ out = <<>>
    /\ before = NoCursor
    /\ requests = <<>>
    /\ resp = NoResponse
    /\ result = <<>>
    /\ thrown = 0
    /\ why = "none"
    /\ channel = <<>>

NoFetchCall == IdleCall /\ NoOtherRun

InitNews ==
    /\ NoFetchCall
    /\ env \in Environments
    /\ file \in InitialFiles
    /\ npc = "start"
    /\ inserted = 0
    /\ RunLocalsReset
    /\ script = "ainews"

NextNews == MainStart \/ NewsApiAnswers \/ OpenAiAnswers \/ PostAnswers \/ NewRun

\* Runs of the ai-news script, one after the other, against any news source.
SpecNews == InitNews /\ [][NextNews]_vars

\* The one-item-per-run feed: every run's query is answered with one article
\* whose URL was never served before; the write and the POST succeed.
FeedAnswers ==
    /\ inserted < MaxInsert
    /\ NewsApiResume(NewsResponse("ok", <<Article("t", inserted + 1)>>), TRUE)
    /\ inserted' = inserted + 1
    /\ UNCHANGED <<articles, items>>

PostSucceeds == PostResume(TRUE)

InitFeed ==
    /\ NoFetchCall
    /\ env = [token |-> TRUE, channel |-> TRUE, newsKey |-> TRUE, openaiKey |-> FALSE]
    /\ file = NoLedger("absent")
    /\ npc = "start"
    /\ inserted = 0
    /\ RunLocalsReset
    /\ script = "ainews"

\* One run of the ai-news script whose configuration is complete, from a
\* ledger that is full or one URL short of it, with the source's answers in
\* view.
InitObserved ==
    /\ NoFetchCall
    /\ env \in {e \in Environments : e.token /\ e.channel /\ e.newsKey}
    /\ file \in {LedgerFile(Ledger(LedgerCap - 1)), LedgerFile(Ledger(LedgerCap))}
    /\ npc = "start"
    /\ inserted = 0
    /\ RunLocalsReset
    /\ script = "ainews"

NextObserved == MainStart \/ NewsApiObserved \/ OpenAiAnswers \/ PostAnswers

SpecObserved == InitObserved /\ [][NextObserved]_vars

NextFeed == MainStart \/ FeedAnswers \/ PostSucceeds \/ NewRun

\* Runs of the ai-news script against the one-item-per-run feed.
SpecFeed == InitFeed /\ [][NextFeed]_vars

-----------------------------------------------------------------------------
(* The message scripts: main of discord-achievements.js, main of
   discord-selfintro.js, and the consultation prompt (discord-consultation.js
   lines 1-43, discord-selfintro.js lines 206-248). *)

Human(a) == [id |-> a, bot |-> FALSE]

Bot == [id |-> MaxAuthor + 1, bot |-> TRUE]

Authors == {Human(a) : a \in 1..MaxAuthor} \cup {Bot}

ChatMessage(i, t, a) == [id |-> i, timestamp |-> t, author |-> a]

\* Channel histories with authors: newest first, ids strictly decreasing,
\* timestamps never increasing.
RunHistories ==
    UNION {{[i \in 1..n |-> ChatMessage(n - i + 1, ts[i], as[i])] :
               ts \in NonIncreasing(n, MaxTs), as \in [1..n -> Authors]} :
           n \in 0..(MaxChannel - 1)}

\* A busy channel: one more in-window message by humans than the achievements
\* digest lists.
LongChannel ==
    [i \in 1..(SummaryCap + 1) |->
        ChatMessage(SummaryCap + 2 - i, MaxTs, Human(IF i = 2 THEN MaxAuthor ELSE 1))]

\* The channel of the end-to-end scenario: three messages by humans and one
\* by the bot inside the window, two by humans outside it.
ScenarioChannel ==
    <<ChatMessage(6, MaxTs, Human(1)), ChatMessage(5, MaxTs, Bot),
      ChatMessage(4, MaxTs, Human(MaxAuthor)), ChatMessage(3, MaxTs, Human(1)),
      ChatMessage(2, MaxTs - 1, Human(1)), ChatMessage(1, MaxTs - 1, Human(MaxAuthor))>>

\* raw.filter(m => !m.author?.bot)
NonBot_KeepsBots(list) == list

NonBot(list) == SelectSeq(list, LAMBDA m : ~m.author.bot)

\* One bullet line: the author mentioned and the excerpt of the message's
\* content (a message's content is identified with the message id).
Bullet(a, i) == [author |-> a, excerpt |-> i]

\* formatSummary
FormatSummary_NoCap(list) ==
    IF Len(list) = 0 THEN [kind |-> "rotating", items |-> <<>>]
    ELSE [kind |-> "template",
          items |-> [i \in 1..Len(list) |-> Bullet(list[i].author.id, list[i].id)]]

FormatSummary(list) ==
    IF Len(list) = 0 THEN [kind |-> "rotating", items |-> <<>>]
    ELSE [kind |-> "template",
          items |-> [i \in 1..Min(Len(list), SummaryCap) |->
                        Bullet(list[i].author.id, list[i].id)]]

\* msgs.sort((a, b) => new Date(b.timestamp) - new Date(a.timestamp))[0]:
\* the sort is stable, so of the newest messages the first in msgs.
Latest(msgs) ==
    msgs[CHOOSE i \in 1..Len(msgs) :
            /\ \A j \in 1..Len(msgs) : msgs[j].timestamp <= msgs[i].timestamp
            /\ \A j \in 1..(i - 1) : msgs[j].timestamp < msgs[i].timestamp]

\* buildFallbackSummary: one bullet per author, in the order the Map met them.
BuildFallbackSummary(list) ==
    LET byUser == SetFrom([i \in 1..Len(list) |-> list[i].author.id])
        of(u) == SelectSeq(list, LAMBDA m : m.author.id = u)
    IN  IF Len(byUser) = 0 THEN [kind |-> "empty", items |-> <<>>]
        ELSE [kind |-> "template",
              items |-> [k \in 1..Len(byUser) |->
                            Bullet(byUser[k], Latest(of(byUser[k])).id)]]

\* fallbackFormat of the ai-news scripts.
FallbackFormat(list) == IF Len(list) = 0 THEN Filler ELSE Template(list)

\* The text the summarizer returned, and the consultation prompt.
AiText == [kind |-> "ai", items |-> <<>>]

Prompt == [kind |-> "prompt", items |-> <<>>]

MessageScripts == {"achievements", "selfintro", "consultation"}

\* main from its start to its first await.
ScriptStart ==
    /\ script \in MessageScripts
    /\ npc = "start"
    /\ IF ~(env.token /\ env.channel)
       THEN /\ MainCatch
            /\ UNCHANGED <<digest, fpc, requests, result, why>>
       ELSE IF script = "consultation"
       THEN /\ digest' = Prompt
            /\ npc' = "post"
            /\ events' = Append(events, "post")
            /\ UNCHANGED <<exitCode, fpc, requests, result, why>>
       ELSE /\ LoopHead(out, before)
            /\ npc' = "fetch"
            /\ events' = Append(events, "fetch")
            /\ UNCHANGED <<digest, exitCode>>
    /\ UNCHANGED <<sinceTs, limitMax, out, before, resp, thrown, channel, runs>>
    /\ UNCHANGED <<env, file, query, sentUrls, articles, items, raw, marked, inserted>>
    /\ UNCHANGED varsRun

\* The await of a message page resumes with r: the fetch goes on to its next
\* request, or throws into main's catch, or returns and main filters the
\* authors and goes on to the summarizer (self-intro, with a key) or builds
\* the template and awaits the POST.
MessagesResume(r) ==
    /\ script \in {"achievements", "selfintro"}
    /\ npc = "fetch"
    /\ FetchAdvance(r)
    /\ IF fpc' = "await"
       THEN /\ events' = Append(events, "fetch")
            /\ UNCHANGED <<npc, raw, nonBot, digest, exitCode>>
       ELSE IF fpc' = "threw"
       THEN /\ MainCatch
            /\ UNCHANGED <<raw, nonBot, digest>>
       ELSE /\ raw' = result'
            /\ nonBot' = NonBot(result')
            /\ UNCHANGED exitCode
            /\ IF script = "selfintro" /\ env.openaiKey
               THEN /\ npc' = "openai"
                    /\ events' = Append(events, "openai")
                    /\ UNCHANGED digest
               ELSE /\ digest' = IF script = "selfintro"
                                 THEN BuildFallbackSummary(NonBot(result'))
                                 ELSE FormatSummary(NonBot(result'))
                    /\ npc' = "post"
                    /\ events' = Append(events, "post")
    /\ UNCHANGED <<env, file, query, sentUrls, articles, items, marked, inserted>>
    /\ UNCHANGED <<script, allItems, answer>>

\* The message-list endpoint serves the channel history, or fails.
MessagesAnswer ==
    /\ npc = "fetch"
    /\ \E r \in {HistoryPage(channel, requests[Len(requests)])}
                   \cup {Failed(st) : st \in FailureStatuses} : MessagesResume(r)

\* What the await inside the self-intro summarizeWithOpenAI resumes with: a
\* body with text, a body without usable content, a non-success status, a
\* thrown transport error, a success whose body is not JSON.
SummarizerAnswers == {"text", "empty", "http", "throw", "badBody"}

\* summarizeWithOpenAI of discord-selfintro.js has no try around its awaits.
SelfIntroSummarize(r) ==
    /\ answer' = r
    /\ IF r \in {"throw", "badBody"}
       THEN /\ MainCatch
            /\ UNCHANGED digest
       ELSE /\ digest' = IF r = "text" THEN AiText ELSE BuildFallbackSummary(nonBot)
            /\ npc' = "post"
            /\ events' = Append(events, "post")
            /\ UNCHANGED exitCode

SelfIntroOpenAiAnswers ==
    /\ script = "selfintro"
    /\ npc = "openai"
    /\ \E r \in SummarizerAnswers : SelfIntroSummarize(r)
    /\ UNCHANGED <<env, file, query, sentUrls, articles, items, raw, marked, inserted>>
    /\ UNCHANGED <<script, nonBot, allItems>>
    /\ UNCHANGED varsFetch
    /\ UNCHANGED runs

\* The await of the POST resumes: post (achievements, consultation) throws on
\* a non-success status; postMessage (self-intro) also returns resp.json(),
\* which rejects when the body of a success is not JSON.
ScriptPostResume(r) ==
    /\ answer' = r
    /\ IF r = "ok"
       THEN /\ npc' = "done"
            /\ events' = Append(events, "posted")
            /\ UNCHANGED exitCode
       ELSE IF r = "badBody"
       THEN /\ npc' = "done"
            /\ exitCode' = 1
            /\ events' = events \o <<"posted", "error">>
       ELSE MainCatch

ScriptPostAnswers ==
    /\ script \in MessageScripts
    /\ npc = "post"
    /\ \E r \in {"ok", "fail"} \cup (IF script = "selfintro" THEN {"badBody"} ELSE {}) :
          ScriptPostResume(r)
    /\ UNCHANGED <<env, file, query, sentUrls, articles, items, raw, marked, digest, inserted>>
    /\ UNCHANGED <<script, nonBot, allItems>>
    /\ UNCHANGED varsFetch
    /\ UNCHANGED runs

-----------------------------------------------------------------------------
(* main of the ai-news script of discord-consultation.js (from line 45), with
   fetchNewsFromBraveAPI, fetchNewsFromNewsAPI and fetchNewsFromGoogleNewsRSS
   inlined at their awaits. Recording the URLs, the summarizer and the POST
   are the code of discord-ai-news.js again (RecordAndGoOn, OpenAiAnswers,
   PostAnswers). *)

SourceEnvironments ==
    [token : BOOLEAN, channel : BOOLEAN, newsKey : BOOLEAN, openaiKey : BOOLEAN,
     braveKey : BOOLEAN]

\* What a source lists in one answer: nothing, one item (one of them without
\* a title), or the same item twice.
SourcePool == {Article("t", 1), Article("t", 2), Article("t", 3), Article("t", 4),
               Article("", 2)}

SourceLists ==
    {<<>>} \cup {<<a>> : a \in SourcePool} \cup {<<Article("t", 2), Article("t", 2)>>}

\* What the await of a source request resumes with: a non-success status, a
\* thrown error, or a body with a list (for NewsAPI, also status 'error').
SourceResponses ==
    {NewsResponse(k, <<>>) : k \in {"http", "throw"}}
        \cup {NewsResponse("ok", l) : l \in SourceLists}

SourceFiles == {NoLedger("absent"), LedgerFile(<<1>>)}

\* uniqueItems: the first item of every url.
Dedupe(list) ==
    LET first == {i \in 1..Len(list) : \A j \in 1..(i - 1) : list[j].url # list[i].url}
    IN  [k \in 1..Cardinality(first) |->
            list[CHOOSE i \in first : Cardinality({j \in first : j < i}) = k - 1]]

\* The RSS item loop: while there is an item and allItems.length < 30, push
\* the item if it has a title and a link that was not sent.
RECURSIVE RssParse(_, _, _)
RssParse(acc, list, seen) ==
    IF list = <<>> \/ Len(acc) >= RssCap THEN acc
    ELSE RssParse(IF /\ TruthyTitle(Head(list).title)
                     /\ TruthyUrl(Head(list).url)
                     /\ Head(list).url \notin Range(seen)
                  THEN Append(acc, Head(list)) ELSE acc,
                  Tail(list), seen)

\* fetchNewsFromGoogleNewsRSS up to its first await.
EnterRss(log) ==
    /\ sentUrls' = LoadSentUrls(file).urls
    /\ allItems' = <<>>
    /\ query' = 1
    /\ npc' = "rss"
    /\ events' = Append(log, "rss")

\* if (raw.length === 0 && NEWS_API_KEY): fetchNewsFromNewsAPI up to its first
\* await; without the key, on to the RSS.
EnterNewsApi(log) ==
    IF env.newsKey
    THEN /\ sentUrls' = LoadSentUrls(file).urls
         /\ allItems' = <<>>
         /\ query' = 1
         /\ npc' = "newsapi"
         /\ events' = Append(log, "newsapi")
    ELSE EnterRss(log)

\* if (BRAVE_API_KEY): fetchNewsFromBraveAPI up to its first await; without
\* the key, on to NewsAPI.
EnterBrave(log) ==
    IF env.braveKey
    THEN /\ sentUrls' = LoadSentUrls(file).urls
         /\ allItems' = <<>>
         /\ query' = 1
         /\ npc' = "brave"
         /\ events' = Append(log, "brave")
    ELSE EnterNewsApi(log)

\* main from its start to its first await.
SourcesStart_NoAssert ==
    /\ script = "ainews3"
    /\ npc = "start"
    /\ EnterBrave(events)
    /\ UNCHANGED exitCode
    /\ UNCHANGED <<env, file, articles, items, raw, marked, digest, inserted>>
    /\ UNCHANGED <<script, nonBot, answer>>
    /\ UNCHANGED varsFetch
    /\ UNCHANGED runs

SourcesStart ==
    /\ script = "ainews3"
    /\ npc = "start"
    /\ IF ~(env.token /\ env.channel)
       THEN /\ MainCatch
            /\ UNCHANGED <<query, sentUrls, allItems>>
       ELSE /\ EnterBrave(events)
            /\ UNCHANGED exitCode
    /\ UNCHANGED <<env, file, articles, items, raw, marked, digest, inserted>>
    /\ UNCHANGED <<script, nonBot, answer>>
    /\ UNCHANGED varsFetch
    /\ UNCHANGED runs

\* The await of a Brave request resumes with r. A failure or an empty body
\* adds nothing; after the last query the unique items are cut to three and
\* main goes on.
BraveResume_AbortsOnFailure(r, writeOk) ==
    /\ script = "ainews3"
    /\ npc = "brave"
    /\ answer' = r.kind
    /\ LET got == IF r.kind = "ok" THEN BraveFilter(r.articles, sentUrls) ELSE <<>>
           acc == allItems \o got
           sel == Prefix(Dedupe(acc), MaxSelected)
       IN  /\ allItems' = acc
           /\ IF query < BraveQueries /\ r.kind = "ok"
              THEN /\ query' = query + 1
                   /\ events' = Append(events, "brave")
                   /\ UNCHANGED <<npc, sentUrls, raw, marked, digest, exitCode, file>>
              ELSE IF Len(sel) > 0
              THEN /\ RecordAndGoOn(sel, writeOk)
                   /\ UNCHANGED <<query, sentUrls>>
              ELSE /\ PostFillerNext(events)
                   /\ UNCHANGED <<query, sentUrls, marked, exitCode, file>>
    /\ UNCHANGED <<env, articles, items, inserted>>
    /\ UNCHANGED <<script, nonBot>>
    /\ UNCHANGED varsFetch
    /\ UNCHANGED runs

BraveResume(r, writeOk) ==
    /\ script = "ainews3"
    /\ npc = "brave"
    /\ answer' = r.kind
    /\ LET got == IF r.kind = "ok" THEN BraveFilter(r.articles, sentUrls) ELSE <<>>
           acc == allItems \o got
           sel == Prefix(Dedupe(acc), MaxSelected)
       IN  IF query < BraveQueries
           THEN /\ query' = query + 1
                /\ allItems' = acc
                /\ events' = Append(events, "brave")
                /\ UNCHANGED <<npc, sentUrls, raw, marked, digest, exitCode, file>>
           ELSE IF Len(sel) > 0
           THEN /\ RecordAndGoOn(sel, writeOk)
                /\ allItems' = acc
                /\ UNCHANGED <<query, sentUrls>>
           ELSE /\ EnterNewsApi(events)
                /\ UNCHANGED <<raw, marked, digest, exitCode, file>>
    /\ UNCHANGED <<env, articles, items, inserted>>
    /\ UNCHANGED <<script, nonBot>>
    /\ UNCHANGED varsFetch
    /\ UNCHANGED runs

BraveAnswers == \E r \in SourceResponses, writeOk \in BOOLEAN : BraveResume(r, writeOk)

\* The await of a NewsAPI request resumes with r: the first query with new
\* items ends the function; after the last query without any, on to the RSS.
SourcesNewsApiResume(r, writeOk) ==
    /\ script = "ainews3"
    /\ npc = "newsapi"
    /\ answer' = r.kind
    /\ LET found == IF r.kind = "ok"
                    THEN FilterUnseen(ValidItems(r.articles), sentUrls)
                    ELSE <<>>
       IN  IF Len(found) > 0
           THEN /\ RecordAndGoOn(Prefix(found, MaxSelected), writeOk)
                /\ UNCHANGED <<query, sentUrls, allItems>>
           ELSE IF query < NewsApiQueries
           THEN /\ query' = query + 1
                /\ events' = Append(events, "newsapi")
                /\ UNCHANGED <<npc, sentUrls, allItems, raw, marked, digest, exitCode, file>>
           ELSE /\ EnterRss(events)
                /\ UNCHANGED <<raw, marked, digest, exitCode, file>>
    /\ UNCHANGED <<env, articles, items, inserted>>
    /\ UNCHANGED <<script, nonBot>>
    /\ UNCHANGED varsFetch
    /\ UNCHANGED runs

SourcesNewsApiAnswers ==
    \E r \in SourceResponses \cup {NewsResponse("apiError", <<>>)}, writeOk \in BOOLEAN :
        SourcesNewsApiResume(r, writeOk)

\* The await of a Google News RSS request resumes with r; after the last
\* query the unique items are cut to three, and without any the filler is
\* POSTed.
RssResume(r, writeOk) ==
    /\ script = "ainews3"
    /\ npc = "rss"
    /\ answer' = r.kind
    /\ LET acc == IF r.kind = "ok" THEN RssParse(allItems, r.articles, sentUrls)
                  ELSE allItems
           sel == Prefix(Dedupe(acc), MaxSelected)
       IN  /\ allItems' = acc
           /\ IF query < RssQueries
              THEN /\ query' = query + 1
                   /\ events' = Append(events, "rss")
                   /\ UNCHANGED <<npc, raw, marked, digest, exitCode, file>>
              ELSE IF Len(sel) > 0
              THEN /\ RecordAndGoOn(sel, writeOk)
                   /\ UNCHANGED query
              ELSE /\ PostFillerNext(events)
                   /\ UNCHANGED <<query, marked, exitCode, file>>
    /\ UNCHANGED <<env, sentUrls, articles, items, inserted>>
    /\ UNCHANGED <<script, nonBot>>
    /\ UNCHANGED varsFetch
    /\ UNCHANGED runs

RssAnswers == \E r \in SourceResponses, writeOk \in BOOLEAN : RssResume(r, writeOk)

InitSources ==
    /\ NoFetchCall
    /\ script = "ainews3"
    /\ env \in SourceEnvironments
    /\ file \in SourceFiles
    /\ npc = "start"
    /\ inserted = 0
    /\ RunLocalsReset

NextSources ==
    \/ SourcesStart
    \/ BraveAnswers
    \/ SourcesNewsApiAnswers
    \/ RssAnswers
    \/ OpenAiAnswers
    \/ PostAnswers

\* One run of the three-source ai-news script.
SpecSources == InitSources /\ [][NextSources]_vars

-----------------------------------------------------------------------------
(* Every script's main, one run each. *)

InitMessageScript ==
    /\ script \in MessageScripts
    /\ env \in {e \in Environments : e.newsKey /\ (script = "selfintro" \/ e.openaiKey)}
    /\ InitCall
    /\ IF script = "consultation"
       THEN channel = <<>> /\ sinceTs = 0 /\ limitMax = 1
       ELSE /\ channel \in RunHistories \cup {LongChannel, ScenarioChannel}
            /\ limitMax = IF script = "achievements" THEN AchievementsCap ELSE SelfIntroCap
    /\ file = NoLedger("absent")
    /\ npc = "start"
    /\ inserted = 0
    /\ RunLocalsReset

InitNewsApiScript ==
    /\ NoFetchCall
    /\ script = "ainews"
    /\ env \in Environments
    /\ file \in SourceFiles
    /\ npc = "start"
    /\ inserted = 0
    /\ RunLocalsReset

InitScripts == InitMessageScript \/ InitNewsApiScript \/ InitSources

NextScripts ==
    \/ ScriptStart
    \/ MessagesAnswer
    \/ SelfIntroOpenAiAnswers
    \/ ScriptPostAnswers
    \/ MainStart
    \/ NewsApiAnswers
    \/ NextSources

SpecScripts == InitScripts /\ [][NextScripts]_vars

-----------------------------------------------------------------------------
(* The template formatters on their own: formatSummary and
   buildFallbackSummary over lists of human-authored messages,
   fallbackFormat over lists of news items. *)

TemplateMessages ==
    {NonBot(c) : c \in RunHistories \cup {LongChannel, ScenarioChannel}}

TemplateItems == SeqsUpTo({Article("t", u) : u \in 1..2}, MaxSelected + 1)

ApplyFormatSummary ==
    /\ npc = "format"
    /\ script = "achievements"
    /\ digest' = FormatSummary(nonBot)
    /\ npc' = "formatted"
    /\ UNCHANGED <<env, file, query, sentUrls, articles, items, raw, marked, exitCode,
                   events, inserted>>
    /\ UNCHANGED <<script, nonBot, allItems, answer>>
    /\ UNCHANGED varsFetch
    /\ UNCHANGED runs

ApplyBuildFallbackSummary ==
    /\ npc = "format"
    /\ script = "selfintro"
    /\ digest' = BuildFallbackSummary(nonBot)
    /\ npc' = "formatted"
    /\ UNCHANGED <<env, file, query, sentUrls, articles, items, raw, marked, exitCode,
                   events, inserted>>
    /\ UNCHANGED <<script, nonBot, allItems, answer>>
    /\ UNCHANGED varsFetch
    /\ UNCHANGED runs

ApplyFallbackFormat ==
    /\ npc = "format"
    /\ script = "ainews"
    /\ digest' = FallbackFormat(raw)
    /\ npc' = "formatted"
    /\ UNCHANGED <<env, file, query, sentUrls, articles, items, raw, marked, exitCode,
                   events, inserted>>
    /\ UNCHANGED <<script, nonBot, allItems, answer>>
    /\ UNCHANGED varsFetch
    /\ UNCHANGED runs

InitTemplate ==
    /\ NoFetchCall
    /\ env = [token |-> TRUE, channel |-> TRUE, newsKey |-> TRUE, openaiKey |-> TRUE]
    /\ file = NoLedger("absent")
    /\ npc = "format"
    /\ inserted = 0
    /\ query = 0
    /\ sentUrls = <<>>
    /\ articles = <<>>
    /\ items = <<>>
    /\ marked = <<>>
    /\ digest = NoDigest
    /\ exitCode = 0
    /\ events = <<>>
    /\ allItems = <<>>
    /\ answer = "none"
    /\ script \in {"achievements", "selfintro", "ainews"}
    /\ IF script = "ainews"
       THEN raw \in TemplateItems /\ nonBot = <<>>
       ELSE raw = <<>> /\ nonBot \in TemplateMessages

NextTemplate == ApplyFormatSummary \/ ApplyBuildFallbackSummary \/ ApplyFallbackFormat

SpecTemplate == InitTemplate /\ [][NextTemplate]_vars

-----------------------------------------------------------------------------
(* Two processes of the news script started so that both are between their
   fetch and their save (discord-consultation.js 503-510, discord-ai-news.js
   252-258). Within one process loadSentUrls, the adds and saveSentUrls run
   without an await between them; readFileSync and writeFileSync of two
   processes interleave freely, nothing locks the file. *)

\* URLs no earlier run recorded.
FreshUrls == (LedgerCap + 1)..(LedgerCap + MaxFresh)

\* What a fetch function returned to main: a non-empty list.
FetchedLists ==
    {l \in SeqsUpTo({Article("t", u) : u \in FreshUrls}, MaxArticles) : l # <<>>}

OverlapFiles ==
    {NoLedger("absent"), LedgerFile(Ledger(LedgerCap - 1)), LedgerFile(Ledger(LedgerCap))}

Step(p, op) == [run |-> p, op |-> op]

\* const sentUrls = loadSentUrls() of main
RunLoads(p) ==
    /\ runs[p].pc = "fetched"
    /\ runs' = [runs EXCEPT ![p].pc = "loaded",
                            ![p].sentUrls = LoadSentUrls(file).urls]
    /\ events' = Append(events, Step(p, "load"))
    /\ UNCHANGED <<env, file, npc, query, sentUrls, articles, items, raw, marked, digest,
                   exitCode, inserted>>
    /\ UNCHANGED <<fpc, sinceTs, limitMax, out, before, requests, resp, result, thrown,
                   why, channel>>
    /\ UNCHANGED varsRun

\* raw.forEach(item => sentUrls.add(item.url)); saveSentUrls(sentUrls), with the
\* Set the process loaded and not with what the file holds by now.
RunSaves_Merges(p, writeOk) ==
    /\ runs[p].pc = "loaded"
    /\ LET set == AddUrls(LoadSentUrls(file).urls, runs[p].raw)
       IN  /\ file' = SaveSentUrls(set, file, writeOk)
           /\ runs' = [runs EXCEPT ![p].pc = "saved", ![p].sentUrls = set,
                                   ![p].wrote = writeOk]
    /\ events' = Append(events, Step(p, "save"))
    /\ UNCHANGED <<env, npc, query, sentUrls, articles, items, raw, marked, digest,
                   exitCode, inserted>>
    /\ UNCHANGED <<fpc, sinceTs, limitMax, out, before, requests, resp, result, thrown,
                   why, channel>>
    /\ UNCHANGED varsRun

RunSaves(p, writeOk) ==
    /\ runs[p].pc = "loaded"
    /\ LET set == AddUrls(runs[p].sentUrls, runs[p].raw)
       IN  /\ file' = SaveSentUrls(set, file, writeOk)
           /\ runs' = [runs EXCEPT ![p].pc = "saved", ![p].sentUrls = set,
                                   ![p].wrote = writeOk]
    /\ events' = Append(events, Step(p, "save"))
    /\ UNCHANGED <<env, npc, query, sentUrls, articles, items, raw, marked, digest,
                   exitCode, inserted>>
    /\ UNCHANGED <<fpc, sinceTs, limitMax, out, before, requests, resp, result, thrown,
                   why, channel>>
    /\ UNCHANGED varsRun

RunLoadsLedger == \E p \in Runs : RunLoads(p)

RunSavesLedger == \E p \in Runs, writeOk \in BOOLEAN : RunSaves(p, writeOk)

InitOverlap ==
    /\ IdleCall
    /\ env = [token |-> TRUE, channel |-> TRUE, newsKey |-> TRUE, openaiKey |-> TRUE]
    /\ file \in OverlapFiles
    /\ npc = "idle"
    /\ inserted = 0
    /\ RunLocalsReset
    /\ script = "ainews3"
    /\ runs \in [Runs -> {[pc |-> "fetched", raw |-> l, sentUrls |-> <<>>, wrote |-> FALSE] :
                              l \in FetchedLists}]

NextOverlap == RunLoadsLedger \/ RunSavesLedger

SpecOverlap == InitOverlap /\ [][NextOverlap]_vars

-----------------------------------------------------------------------------
(* The ledger filters on their own: any article list against any seen set. *)

RECURSIVE Ascending(_)
Ascending(S) ==
    IF S = {} THEN <<>>
    ELSE LET m == CHOOSE x \in S : \A y \in S : x <= y
         IN  <<m>> \o Ascending(S \ {m})

SeenSets == {Ascending(S) : S \in SUBSET UrlPool}

\* fetchNewsFromNewsAPI's filters.
FilterNewsApi ==
    /\ npc = "filter"
    /\ items' = FilterUnseen(ValidItems(articles), sentUrls)
    /\ npc' = "filteredNewsApi"
    /\ UNCHANGED <<env, file, query, sentUrls, articles, raw, marked, digest, exitCode,
                   events, inserted>>
    /\ UNCHANGED varsFetch
    /\ UNCHANGED runs
    /\ UNCHANGED varsRun

\* fetchNewsFromBraveAPI's filter.
FilterBrave ==
    /\ npc = "filter"
    /\ items' = BraveFilter(articles, sentUrls)
    /\ npc' = "filteredBrave"
    /\ UNCHANGED <<env, file, query, sentUrls, articles, raw, marked, digest, exitCode,
                   events, inserted>>
    /\ UNCHANGED varsFetch
    /\ UNCHANGED runs
    /\ UNCHANGED varsRun

InitFilter ==
    /\ NoFetchCall
    /\ env = [token |-> TRUE, channel |-> TRUE, newsKey |-> TRUE, openaiKey |-> TRUE]
    /\ file = NoLedger("absent")
    /\ npc = "filter"
    /\ inserted = 0
    /\ query = 0
    /\ sentUrls \in SeenSets
    /\ articles \in ArticleLists
    /\ items = <<>>
    /\ raw = <<>>
    /\ marked = <<>>
    /\ digest = NoDigest
    /\ exitCode = 0
    /\ events = <<>>
    /\ script = "none"
    /\ nonBot = <<>>
    /\ allItems = <<>>
    /\ answer = "none"

NextFilter == FilterNewsApi \/ FilterBrave

SpecFilter == InitFilter /\ [][NextFilter]_vars

-----------------------------------------------------------------------------
(* Claims about fetchSince / fetchMessagesSince *)

InWindow(m) == m.timestamp >= sinceTs

HasPast(batch) == \E i \in 1..Len(batch) : ~InWindow(batch[i])

FirstPast(batch) ==
    CHOOSE i \in 1..Len(batch) :
        /\ ~InWindow(batch[i])
        /\ \A j \in 1..(i - 1) : InWindow(batch[j])

\* C1: every message of the returned list has a timestamp at or after the
\* since-instant (and so has every message accumulated on the way).
C1_OnlyInWindow ==
    /\ \A i \in 1..Len(out) : out[i].timestamp >= sinceTs
    /\ \A i \in 1..Len(result) : result[i].timestamp >= sinceTs

\* A call that collected messages over two pages and then met the boundary.
C1_Witness ==
    /\ fpc = "returned"
    /\ why = "boundary"
    /\ Len(requests) >= 2
    /\ Len(result) >= 2
    /\ HasPast(resp.items)

\* C2: the returned list is never longer than limitMax.
C2_AtMostLimitMax == fpc = "returned" => Len(result) <= limitMax

\* C3: the await that resumes with a page holding a message older than the
\* since-instant ends the call at once: the result is what was accumulated
\* before plus the page's items ahead of the first such message, and no
\* request is issued in that step or after the return.
C3_BoundaryReturns ==
    /\ [][(fpc = "await" /\ resp'.ok /\ resp'.isArray /\ HasPast(resp'.items))
            => /\ fpc' = "returned"
               /\ result' = out \o Prefix(resp'.items, FirstPast(resp'.items) - 1)
               /\ requests' = requests]_vars
    /\ [][fpc = "returned" => requests' = requests]_vars

\* The call met, in one page, an out-of-window message ahead of an in-window
\* one, after a first page it accepted.
C3_Witness ==
    /\ fpc = "returned"
    /\ why = "boundary"
    /\ Len(result) >= 1
    /\ \E i, j \in 1..Len(resp.items) :
          i < j /\ ~InWindow(resp.items[i]) /\ InWindow(resp.items[j])

InWindowHistory == SelectSeq(channel, InWindow)

\* C4: against the well-behaved upstream, with fewer in-window messages than
\* limitMax, the call returns exactly the in-window messages of the channel,
\* each once, newest first.
C4_ReturnsWholeWindow ==
    (fpc = "returned" /\ Len(InWindowHistory) < limitMax)
        => result = InWindowHistory

\* A full page of in-window messages and older ones behind it: the window is
\* returned whole after more than one request.
C4_Witness ==
    /\ fpc = "returned"
    /\ Len(InWindowHistory) < limitMax
    /\ Len(InWindowHistory) >= MaxPageLen
    /\ Len(channel) > Len(InWindowHistory)
    /\ Len(requests) >= 2
    /\ result = InWindowHistory

\* C5: the await that resumes with a non-success response ends the call with
\* an error carrying the status; nothing is returned, and no request is
\* issued in that step or afterwards.
C5_FailureAborts ==
    /\ [][(fpc = "await" /\ ~resp'.ok)
            => /\ fpc' = "threw"
               /\ thrown' = resp'.status
               /\ result' = <<>>
               /\ requests' = requests]_vars
    /\ [][fpc = "threw" => (requests' = requests /\ result' = result /\ fpc' = "threw")]_vars

\* A call that had accumulated messages when its second request failed.
C5_Witness ==
    /\ fpc = "threw"
    /\ thrown = 500
    /\ Len(out) >= 1
    /\ Len(requests) = 2
    /\ result = <<>>

-----------------------------------------------------------------------------
(* Claims about the sent-URL ledger *)

\* C7: the persisted ledger (the result of a successful saveSentUrls, in this
\* run or an earlier one) holds at most 100 URLs and no URL twice.
C7_LedgerBoundedAndDistinct ==
    file.kind = "ledger" =>
        /\ Len(file.urls) <= LedgerCap
        /\ NoDuplicates(file.urls)

\* A run whose source listed one new URL twice and whose Set outgrew the cap,
\* saved.
C7_Witness ==
    /\ "saved" \in Range(events)
    /\ Len(raw) = 2
    /\ raw[1].url = raw[2].url
    /\ Len(marked) > LedgerCap
    /\ Len(file.urls) = LedgerCap

\* C8: after n runs that each insert one new URL, the ledger is URLs 1..n in
\* order while n <= 100, and the last 100 inserted, in order, afterwards.
C8_KeepsLastInserted ==
    npc = "done" =>
        /\ file.kind = "ledger"
        /\ inserted <= LedgerCap => file.urls = Ledger(inserted)
        /\ inserted > LedgerCap =>
              file.urls = [i \in 1..LedgerCap |-> inserted - LedgerCap + i]

\* 150 URLs inserted: the ledger runs from URL 51 to URL 150.
C8_Witness ==
    /\ npc = "done"
    /\ inserted = 150
    /\ Len(file.urls) = LedgerCap
    /\ file.urls[1] = 51
    /\ file.urls[LedgerCap] = 150

ConfigOk == env.token /\ env.channel

\* C9: loadSentUrls never raises and gives the empty Set for a file that is
\* absent, unreadable, unparsable or without a usable 'urls' array: the fetch
\* goes on with an empty seen set, main records the new URLs alone, and a run
\* ends in its catch only for a missing configuration or a failed POST.
C9_LoadGivesEmptySetNeverRaises ==
    /\ (npc = "newsapi" /\ file.kind # "ledger") => sentUrls = <<>>
    /\ ("saveFailed" \in Range(events) /\ file.kind # "ledger")
          => marked = AddUrls(<<>>, raw)
    /\ \A i \in 1..Len(events) :
          events[i] = "error" => (~ConfigOk \/ (i > 1 /\ events[i - 1] = "post"))

\* Positions of the articles that have a title and a url and whose url is not
\* in the seen set.
UnseenAt ==
    {i \in 1..Len(articles) :
        /\ articles[i].title # ""
        /\ articles[i].url # 0
        /\ articles[i].url \notin Range(sentUrls)}

Nth(S, k) == CHOOSE i \in S : Cardinality({j \in S : j < i}) = k - 1

\* C10: the filter keeps exactly the (well-formed) articles whose url is not in
\* the seen set, in their input order; with an empty seen set it returns them
\* unchanged, and with every url seen it returns the empty list.
C10_FilterKeepsUnseenInOrder ==
    npc \in {"filteredNewsApi", "filteredBrave"} =>
        /\ Len(items) = Cardinality(UnseenAt)
        /\ \A k \in 1..Len(items) : items[k] = articles[Nth(UnseenAt, k)]
        /\ (sentUrls = <<>> /\ \A i \in 1..Len(articles) :
                                  articles[i].title # "" /\ articles[i].url # 0)
              => items = articles
        /\ (\A i \in 1..Len(articles) : articles[i].url \in Range(sentUrls))
              => items = <<>>

\* Two articles, the first one seen: the NewsAPI filter leaves the second.
C10_Witness ==
    /\ npc = "filteredNewsApi"
    /\ Len(articles) = 2
    /\ articles[1].url \in Range(sentUrls)
    /\ sentUrls # <<>>
    /\ items = <<articles[2]>>

-----------------------------------------------------------------------------
(* Claims about the ai-news run *)

UrlsOf(list) == [i \in 1..Len(list) |-> list[i].url]

\* C11: within a run the ledger file is written only after the digest was
\* POSTed: every write of the run has a successful POST of the run before it.
C11_LedgerWrittenAfterPost ==
    \A i \in 1..Len(events) :
        events[i] = "saved" => \E j \in 1..(i - 1) : events[j] = "posted"

\* C12: in a run that starts from a ledger and whose source lists seen and
\* unseen URLs, the digest is built from the items main got, none of which has
\* a URL of the ledger the run started from; and the write of that run leaves
\* the original entries followed by those items' URLs, each once, cut to the
\* newest 100.
C12_DigestFromUnseenLedgerAppended ==
    /\ [](digest.kind \in {"template", "ai"} =>
            /\ digest.items = raw
            /\ \A i \in 1..Len(raw) : raw[i].url \notin Range(sentUrls))
    /\ [][("saved" \notin Range(events) /\ "saved" \in Range(events')
             /\ file.kind = "ledger")
            => /\ \A i \in 1..Len(raw') : raw'[i].url \notin Range(file.urls)
               /\ \A i \in 1..Len(raw') :
                     \E k \in 1..Len(articles') : raw'[i] = articles'[k]
               /\ file'.urls = LastN(file.urls \o SetFrom(UrlsOf(raw')), LedgerCap)]_vars

\* A run whose source listed a recorded URL ahead of a new one: the digest
\* holds the new item alone and the write dropped the oldest entry.
C12_Witness ==
    /\ npc = "done"
    /\ events[Len(events)] = "posted"
    /\ "saved" \in Range(events)
    /\ Len(articles) = 2
    /\ articles[1].url \in Range(sentUrls)
    /\ raw = <<articles[2]>>
    /\ digest.items = raw
    /\ Len(marked) = LedgerCap + 1
    /\ file.urls = SubSeq(marked, 2, LedgerCap + 1)

\* C13: a failed write of the ledger file is not raised: in the same stretch
\* main goes on to the summarizer or to the POST of the digest, the file is
\* left as it was, and the run ends with exit status 0 when the POST succeeds.
C13_WriteFailureNotRaised ==
    /\ [](\A i \in 1..Len(events) :
            events[i] = "saveFailed"
                => /\ i < Len(events)
                   /\ events[i + 1] \in {"openai", "post"})
    /\ []((npc = "done" /\ "saveFailed" \in Range(events)
            /\ events[Len(events)] = "posted") => exitCode = 0)
    /\ [][("saveFailed" \notin Range(events) /\ "saveFailed" \in Range(events'))
            => (file' = file /\ exitCode' = 0 /\ npc' \in {"openai", "post"})]_vars

\* A run whose write failed, that POSTed the digest and ended with status 0.
C13_Witness ==
    /\ npc = "done"
    /\ "saveFailed" \in Range(events)
    /\ events[Len(events)] = "posted"
    /\ digest.kind \in {"template", "ai"}
    /\ Len(digest.items) >= 1
    /\ exitCode = 0

-----------------------------------------------------------------------------
(* Claims about every script's main *)

Count(s, e) == Cardinality({i \in 1..Len(s) : s[i] = e})

RequestEvents == {"fetch", "brave", "newsapi", "rss", "openai", "post"}

\* C14: in every script, a run without the bot token or without the channel
\* id issues no request at all (no message fetch, no news query, no
\* summarizer call, no POST) and ends in the catch with exit status 1.
C14_ConfigMissingBeforeNetwork ==
    ~(env.token /\ env.channel) =>
        /\ requests = <<>>
        /\ \A i \in 1..Len(events) : events[i] \notin RequestEvents
        /\ npc \in {"start", "done"}
        /\ npc = "done" => (exitCode = 1 /\ events = <<"error">>)

\* The three-source ai-news run with every key set but the channel id.
C14_Witness ==
    /\ script = "ainews3"
    /\ env.token /\ ~env.channel /\ env.braveKey /\ env.newsKey /\ env.openaiKey
    /\ npc = "done"
    /\ exitCode = 1
    /\ events = <<"error">>

\* C15: the summarizer is optional in the self-intro and the ai-news scripts:
\* whatever its request resumes with other than a usable text, main goes on
\* to the POST of the template digest with the exit status untouched; and
\* without the API key the digest is the template.
C15_SummarizerFailureFallsBack ==
    /\ [][(npc = "openai" /\ answer' \in {"empty", "http", "throw", "badBody"})
            => /\ npc' = "post"
               /\ digest'.kind \in {"template", "empty"}
               /\ exitCode' = 0
               /\ events' = Append(events, "post")]_vars
    /\ []((script \in {"selfintro", "ainews", "ainews3"} /\ ~env.openaiKey)
            => digest.kind # "ai")

\* C16: every run ends in exactly one of two ways: one message POSTed and exit
\* status 0, or an error logged and a non-zero exit status. A failed POST and
\* a failed message fetch end the run with a non-zero status; a run issues at
\* most one POST, and nothing follows the error: no request, no log entry.
C16_OneOutcomeNoRetry ==
    /\ [](npc = "done" =>
            /\ (Count(events, "posted") = 1 /\ exitCode = 0)
                  # ("error" \in Range(events) /\ exitCode # 0)
            /\ ("post" \in Range(events) /\ "posted" \notin Range(events))
                  => exitCode # 0)
    /\ [](fpc = "threw" => (npc = "done" /\ exitCode # 0))
    /\ [](Count(events, "post") <= 1)
    /\ [](\A i \in 1..Len(events) : events[i] = "error" => i = Len(events))
    /\ [][("error" \in Range(events) \/ fpc = "threw")
            => (events' = events /\ requests' = requests)]_vars

\* An achievements run whose second page request failed, and a run whose POST
\* failed: here the former.
C16_Witness ==
    /\ script = "achievements"
    /\ npc = "done"
    /\ fpc = "threw"
    /\ Len(requests) = 2
    /\ events = <<"fetch", "fetch", "error">>
    /\ exitCode = 1

-----------------------------------------------------------------------------
(* Claims about the digests *)

\* The position in list of the first message by author a.
FirstBy(list, a) ==
    CHOOSE i \in 1..Len(list) :
        list[i].author.id = a /\ \A j \in 1..(i - 1) : list[j].author.id # a

\* The entry of the k-th input item heads the k-th place of the digest.
EntryOf(k) ==
    IF script = "ainews" THEN digest.items[k] = raw[k]
    ELSE digest.items[k] = [author |-> nonBot[k].author.id, excerpt |-> nonBot[k].id]

\* C17 as stated: on non-empty input the template digest has one entry for
\* each input item, in input order, whatever the length of the input.
C17_OneEntryPerItem ==
    (npc = "formatted" /\ (raw # <<>> \/ nonBot # <<>>)) =>
        /\ Len(digest.items) = Len(raw) + Len(nonBot)
        /\ \A k \in 1..Len(digest.items) : EntryOf(k)

\* C17 as amended: on non-empty input, formatSummary lists the first 40 items
\* and fallbackFormat the first 3, one entry each, in input order;
\* buildFallbackSummary lists one entry per author, in the order of the
\* authors' first messages, with the excerpt of that author's newest message
\* (the first of them in input order).
C17_EntriesOfLeadingItems ==
    (npc = "formatted" /\ (raw # <<>> \/ nonBot # <<>>)) =>
        /\ digest.kind = "template"
        /\ script = "achievements" =>
              /\ Len(digest.items) = Min(Len(nonBot), SummaryCap)
              /\ \A k \in 1..Len(digest.items) : EntryOf(k)
        /\ script = "ainews" =>
              /\ Len(digest.items) = Min(Len(raw), MaxSelected)
              /\ \A k \in 1..Len(digest.items) : EntryOf(k)
        /\ script = "selfintro" =>
              /\ \A i \in 1..Len(nonBot) :
                    \E k \in 1..Len(digest.items) :
                        digest.items[k].author = nonBot[i].author.id
              /\ \A j, k \in 1..Len(digest.items) :
                    /\ \E i \in 1..Len(nonBot) :
                          /\ nonBot[i].id = digest.items[k].excerpt
                          /\ nonBot[i].author.id = digest.items[k].author
                          /\ \A h \in 1..Len(nonBot) :
                                nonBot[h].author.id = nonBot[i].author.id
                                    => \/ nonBot[h].timestamp < nonBot[i].timestamp
                                       \/ (nonBot[h].timestamp = nonBot[i].timestamp
                                              /\ h >= i)
                    /\ j < k => FirstBy(nonBot, digest.items[j].author)
                                    < FirstBy(nonBot, digest.items[k].author)

\* formatSummary over 41 messages: 40 entries.
C17_Witness ==
    /\ npc = "formatted"
    /\ script = "achievements"
    /\ Len(nonBot) = SummaryCap + 1
    /\ Len(digest.items) = SummaryCap
    /\ digest.items[SummaryCap].excerpt = nonBot[SummaryCap].id

\* The channel's messages that are inside the window and not by a bot.
Eligible == SelectSeq(channel, LAMBDA m : m.timestamp >= sinceTs /\ ~m.author.bot)

BulletLines == Len(digest.items)

AchievementsFormatted ==
    script = "achievements" /\ fpc = "returned" /\ npc \in {"post", "done"}

\* C18 as stated: in the achievements run the fetch and the author filter give
\* exactly the channel's in-window messages not by a bot, and the template
\* digest has as many bullet lines as that list has messages.
C18_WindowNonBotAllListed ==
    AchievementsFormatted =>
        /\ nonBot = Eligible
        /\ BulletLines = Len(nonBot)

\* C18 as amended: when the window holds fewer messages than the cap of 1200,
\* the fetch and the author filter give exactly the channel's in-window
\* messages not by a bot, and the template digest has as many bullet lines as
\* that list has messages, up to 40.
C18_WindowNonBotListedToCap ==
    (AchievementsFormatted /\ Len(InWindowHistory) < AchievementsCap) =>
        /\ raw = InWindowHistory
        /\ nonBot = Eligible
        /\ BulletLines = Min(Len(nonBot), SummaryCap)
        /\ \A k \in 1..BulletLines : digest.items[k].excerpt = Eligible[k].id

\* The scenario: three messages by humans (and one by the bot) inside the
\* window, two outside: three bullet lines.
C18_Witness ==
    /\ AchievementsFormatted
    /\ channel = ScenarioChannel
    /\ sinceTs = MaxTs
    /\ Len(raw) = 4
    /\ Len(nonBot) = 3
    /\ BulletLines = 3
    /\ events[Len(events)] = "posted"

-----------------------------------------------------------------------------
(* Claims about the order of the requests *)

\* C19: the page requests of fetchSince are sequential and cursor-chained: a
\* step issues at most one request; the first request carries no cursor and
\* is issued by the call itself; each later request is issued when the answer
\* to the preceding one has arrived, that answer being a non-empty page with
\* no out-of-window item, all of it accumulated, and carries the id of the
\* last item of that page as its cursor. No request is outstanding unless the
\* call is waiting for it.
C19_RequestsChained ==
    /\ [][requests' # requests =>
            /\ Len(requests') = Len(requests) + 1
            /\ SubSeq(requests', 1, Len(requests)) = requests
            /\ fpc' = "await"
            /\ IF requests = <<>>
               THEN fpc = "start" /\ requests'[1] = NoCursor
               ELSE /\ fpc = "await"
                    /\ resp'.ok /\ resp'.isArray /\ resp'.items # <<>>
                    /\ ~HasPast(resp'.items)
                    /\ out' = out \o resp'.items
                    /\ requests'[Len(requests')]
                          = resp'.items[Len(resp'.items)].id]_vars
    /\ [](fpc = "start" => requests = <<>>)
    /\ [][(fpc = "await" /\ fpc' # "await") => requests' = requests]_vars

\* A second request is outstanding, with the id of the last item of the first
\* page as its cursor.
C19_Witness ==
    /\ fpc = "await"
    /\ Len(requests) = 2
    /\ requests[1] = NoCursor
    /\ Len(resp.items) = MaxPageLen
    /\ requests[2] = resp.items[MaxPageLen].id
    /\ requests[2] # resp.items[1].id
    /\ out = resp.items

-----------------------------------------------------------------------------
(* Claims about the news sources *)

Sources == {"brave", "newsapi", "rss"}

SourceFailures == {"http", "throw"}

QueriesOf(src) ==
    CASE src = "brave" -> BraveQueries
      [] src = "newsapi" -> NewsApiQueries
      [] src = "rss" -> RssQueries

\* The source consulted after src when src yielded nothing; "postFiller"
\* after the last.
SourceAfter(src) ==
    CASE src = "brave" -> IF env.newsKey THEN "newsapi" ELSE "rss"
      [] src = "newsapi" -> "rss"
      [] src = "rss" -> "postFiller"

\* C20: a non-success response or a thrown error from a news source aborts
\* only that query. The run does not end and its exit status stays 0; what
\* earlier queries gathered is kept; before the source's last query the next
\* query of the same source is issued; after the last query the source
\* returns what it gathered, and when that is nothing the next source in the
\* order Brave, NewsAPI, Google News RSS is consulted from its first query
\* (a source without its key is passed over). A source is consulted only
\* while nothing was selected, after every query of the earlier source, and
\* never before an earlier one. When the last source yields nothing too, the
\* POST of the filler message is issued with exit status 0, and the run ends
\* with status 0 once that POST is accepted (a POST that fails is the failure
\* of C16, not a source's).
C20_SourceFailureSkipsQuery ==
    /\ [][(npc \in Sources /\ answer' \in SourceFailures) =>
            /\ exitCode' = 0
            /\ "error" \notin Range(events')
            /\ IF query < QueriesOf(npc)
               THEN /\ npc' = npc
                    /\ query' = query + 1
                    /\ allItems' = allItems
                    /\ events' = Append(events, npc)
               ELSE IF allItems # <<>>
               THEN /\ raw' = Prefix(Dedupe(allItems), MaxSelected)
                    /\ npc' \in {"openai", "post"}
               ELSE /\ npc' = SourceAfter(npc)
                    /\ raw' = <<>>
                    /\ npc' \in Sources =>
                          query' = 1 /\ events' = Append(events, npc')
                    /\ npc' = "postFiller" =>
                          digest' = Filler /\ events' = Append(events, "post")]_vars
    /\ [](npc \in Sources => (raw = <<>> /\ exitCode = 0))
    /\ [](\A i, j \in 1..Len(events) :
            i < j => /\ events[j] = "brave" => events[i] = "brave"
                     /\ events[j] = "newsapi" => events[i] \in {"brave", "newsapi"}
                     /\ events[j] = "rss" => events[i] \in Sources)
    /\ []("brave" \in Range(events) => env.braveKey)
    /\ []("newsapi" \in Range(events) =>
            (env.newsKey /\ (env.braveKey => Count(events, "brave") = BraveQueries)))
    /\ []("rss" \in Range(events) =>
            /\ env.braveKey => Count(events, "brave") = BraveQueries
            /\ env.newsKey => Count(events, "newsapi") = NewsApiQueries)
    /\ [](npc = "postFiller" =>
            /\ raw = <<>> /\ digest = Filler /\ exitCode = 0
            /\ Count(events, "rss") = RssQueries
            /\ events[Len(events)] = "post")
    /\ []((npc = "done" /\ digest = Filler) =>
            \/ exitCode = 0 /\ events[Len(events)] = "posted"
            \/ exitCode = 1 /\ SubSeq(events, Len(events) - 1, Len(events)) = <<"post", "error">>)

\* Every query of every source was made, the last answer was a failure, and
\* the filler was POSTed: exit status 0.
C20_Witness ==
    /\ npc = "done"
    /\ answer \in SourceFailures
    /\ Count(events, "brave") = BraveQueries
    /\ Count(events, "newsapi") = NewsApiQueries
    /\ Count(events, "rss") = RssQueries
    /\ digest = Filler
    /\ events[Len(events)] = "posted"
    /\ exitCode = 0

-----------------------------------------------------------------------------
(* Claims about the selection and the ledger *)

NewsScript == script \in {"ainews", "ainews3"}

\* C22: a news run in which no new item is found leaves the ledger file as it
\* was: no step of the run changes the file while nothing is selected,
\* saveSentUrls is not called (neither a write nor a failed write is logged,
\* no URL is marked), and the only POST of the run is that of the filler
\* message.
C22_NoItemLedgerUntouched ==
    /\ [][(NewsScript /\ raw' = <<>>) => file' = file]_vars
    /\ []((NewsScript /\ raw = <<>>) =>
            /\ "saved" \notin Range(events)
            /\ "saveFailed" \notin Range(events)
            /\ marked = <<>>
            /\ Count(events, "post") <= 1
            /\ digest \in {NoDigest, Filler}
            /\ "post" \in Range(events) => digest = Filler)
    /\ []((NewsScript /\ raw = <<>> /\ npc = "done" /\ exitCode = 0) =>
            /\ digest = Filler
            /\ events[Len(events)] = "posted")

\* The three-source run found the ledger's only URL again and nothing else:
\* the filler was POSTed and the file is the ledger it started from.
C22_Witness ==
    /\ script = "ainews3"
    /\ npc = "done"
    /\ answer = "ok"
    /\ raw = <<>>
    /\ sentUrls # <<>>
    /\ file = LedgerFile(sentUrls)
    /\ digest = Filler
    /\ events[Len(events)] = "posted"
    /\ exitCode = 0

\* C23: the items a news run selects number at most 3 and have pairwise
\* distinct URLs, whichever source produced them; a write of the ledger adds
\* the URLs of the selected items and no other.
C23_SelectedDistinctAtMostThree ==
    /\ [](NewsScript =>
            /\ Len(raw) <= MaxSelected
            /\ NoDuplicates(UrlsOf(raw)))
    /\ [][(NewsScript /\ file' # file) =>
            /\ raw' # <<>>
            /\ Range(file'.urls) \ Range(file.urls) \subseteq Range(UrlsOf(raw'))
            /\ Range(UrlsOf(raw')) \subseteq Range(file'.urls)]_vars

-----------------------------------------------------------------------------
(* Claims about two processes on one ledger *)

\* The place of process p's load or save among the file operations.
Pos(p, op) == CHOOSE i \in 1..Len(events) : events[i] = Step(p, op)

\* Process p saved and its write succeeded.
Recorded(p) == runs[p].pc = "saved" /\ runs[p].wrote

RawUrls(p) == Range(UrlsOf(runs[p].raw))

\* C21: the ledger has no locking. Of two processes whose writes both
\* succeeded, the later save overwrites the earlier: the file holds what the
\* later process loaded plus its own URLs, cut to the cap. When the later
\* process loaded before the earlier one saved, the file lacks every URL of
\* the earlier process that the later one did not record itself (lost
\* update). When it loaded after the earlier one saved, a URL of the earlier
\* process is missing only if the later save cut the list at the cap. The
\* URLs of the process that wrote last are all in the file.
C21_LaterSaveOverwrites ==
    \A p, q \in Runs :
        /\ (Recorded(p) /\ \A o \in Runs \ {p} :
                              Recorded(o) => Pos(o, "save") < Pos(p, "save")) =>
              /\ file = LedgerFile(LastN(runs[p].sentUrls, LedgerCap))
              /\ RawUrls(p) \subseteq Range(file.urls)
        /\ (p # q /\ Recorded(p) /\ Recorded(q) /\ Pos(p, "save") < Pos(q, "save")) =>
              IF Pos(q, "load") < Pos(p, "save")
              THEN \A u \in RawUrls(p) \ RawUrls(q) : u \notin Range(file.urls)
              ELSE \A u \in RawUrls(p) :
                      u \in Range(file.urls) \/ Len(runs[q].sentUrls) > LedgerCap

\* Both processes loaded the ledger of 99 URLs before either saved, both
\* writes succeeded, and the file has the URLs of the second only: nothing
\* was cut at the cap.
C21_Witness ==
    /\ Recorded("first") /\ Recorded("second")
    /\ Pos("first", "load") < Pos("second", "load")
    /\ Pos("second", "load") < Pos("first", "save")
    /\ Pos("first", "save") < Pos("second", "save")
    /\ RawUrls("first") \cap Range(file.urls) = {}
    /\ RawUrls("second") \subseteq Range(file.urls)
    /\ Len(file.urls) = LedgerCap
    /\ file.urls[1] = 1

====
